---- MODULE Spec2Model ----
(***************************************************************************)
(* Model of src/main.py: the bike-sharing station collector.               *)
(*                                                                         *)
(* Two specifications share the same state:                                *)
(*   Spec        the program run from the command line (__main__):         *)
(*               backend selection, then the polling loop;                 *)
(*   HandlerSpec the three storage handlers driven directly through their  *)
(*               constructor, save and list, with I/O faults injected.     *)
(***************************************************************************)
EXTENDS Integers, Sequences, FiniteSets, TLC

\* ------------------------------------------------------------------ bounds
MaxBatch == 2       \* longest batch handed to save by HandlerSpec
MaxStored == 3      \* HandlerSpec stops saving once a store lists this many
MaxCycles == 2      \* polling cycles started in one run of Spec

\* ------------------------------------------------------- data: datetimes
\* A naive datetime: whole seconds and microseconds.
Datetime(s, us) == [s |-> s, us |-> us]

\* datetime.isoformat(): the fractional part is omitted when microsecond = 0.
\* A string is modelled by the sequence of its numeric components.
isoformat(dt) == IF dt.us = 0 THEN <<dt.s>> ELSE <<dt.s, dt.us>>

fromisoformat_NoFraction(str) == [s |-> str[1], us |-> 0]

\* datetime.fromisoformat(): a missing fractional part reads as 0.
fromisoformat(str) ==
    [s |-> str[1], us |-> IF Len(str) >= 2 THEN str[2] ELSE 0]

\* ------------------------------------------------------- data: Station
Station(station_id, name, address, bikes, slots, total_slots, latitude, longitude, measurement_dt, city) ==
    [station_id |-> station_id, name |-> name, address |-> address,
     bikes |-> bikes, slots |-> slots, total_slots |-> total_slots,
     latitude |-> latitude, longitude |-> longitude,
     measurement_dt |-> measurement_dt, city |-> city]

to_repr(self) ==
    [id |-> self.station_id, name |-> self.name, address |-> self.address,
     bikes |-> self.bikes, slots |-> self.slots,
     totalSlots |-> self.total_slots, latitude |-> self.latitude,
     longitude |-> self.longitude,
     timestamp |-> isoformat(self.measurement_dt), city |-> self.city]

from_repr(raw_data) ==
    Station(raw_data.id, raw_data.name, raw_data.address, raw_data.bikes,
            raw_data.slots, raw_data.totalSlots, raw_data.latitude,
            raw_data.longitude, fromisoformat(raw_data.timestamp),
            raw_data.city)

\* The keys from_trentino_data_hub_repr subscripts; a payload lacking one
\* raises KeyError.
RequiredKeys ==
    {"id", "name", "address", "bikes", "slots", "totalSlots", "position"}

Adaptable(raw_data) == RequiredKeys \subseteq DOMAIN raw_data

from_trentino_data_hub_repr(raw_data, collection_dt, city) ==
    Station(raw_data.id, raw_data.name, raw_data.address, raw_data.bikes,
            raw_data.slots, raw_data.totalSlots, raw_data.position[1],
            raw_data.position[2], collection_dt, city)

\* Upstream payload elements used as inputs.
RawA ==
    [id |-> "42", name |-> "Main St", address |-> "1 Main St", bikes |-> 3,
     slots |-> 7, totalSlots |-> 10, position |-> <<4607, 1112>>]
RawB ==
    [id |-> "7", name |-> "Piazza", address |-> "2 Piazza", bikes |-> 0,
     slots |-> 5, totalSlots |-> 5, position |-> <<4589, 1104>>]
\* An element without "position".
RawNoPosition ==
    [id |-> "9", name |-> "Depot", address |-> "3 Depot", bikes |-> 1,
     slots |-> 1, totalSlots |-> 2]

SOURCES_BY_CITY_Reversed ==
    << [city |-> "rovereto", url |-> "bikesharing/rovereto"],
       [city |-> "trento", url |-> "bikesharing/trento"] >>

\* The dict keeps its insertion order.
SOURCES_BY_CITY ==
    << [city |-> "trento", url |-> "bikesharing/trento"],
       [city |-> "rovereto", url |-> "bikesharing/rovereto"] >>

\* Records the handlers are exercised with in HandlerSpec.
StationPool ==
    { from_trentino_data_hub_repr(RawA, Datetime(1, 0), "trento"),
      from_trentino_data_hub_repr(RawA, Datetime(1, 5), "trento"),
      from_trentino_data_hub_repr(RawB, Datetime(2, 0), "rovereto") }

SeqsUpTo(S, n) == UNION { [1..k -> S] : k \in 0..n }

\* ------------------------------------------------- StationHandler (JSON file)
\* The target file: whether it exists, whether its text is complete JSON,
\* which JSON value it holds ("array", "object" or "null") and, for an array,
\* its objects (the ones written so far when the text stops early), for an
\* object, its keys.
NoFile == [exists |-> FALSE, complete |-> FALSE, kind |-> "array", recs |-> <<>>]
JsonFile(recs) == [exists |-> TRUE, complete |-> TRUE, kind |-> "array", recs |-> recs]
PartialFile(recs) == [exists |-> TRUE, complete |-> FALSE, kind |-> "array", recs |-> recs]
ObjectFile(keys) == [exists |-> TRUE, complete |-> TRUE, kind |-> "object", recs |-> keys]
NullFile == [exists |-> TRUE, complete |-> TRUE, kind |-> "null", recs |-> <<>>]

\* I/O faults: none, while opening or reading, or while writing after
\* `written` array elements have reached the file.
NoFault == [at |-> "none", written |-> 0]
ReadFault == [at |-> "read", written |-> 0]
WriteFault(k) == [at |-> "write", written |-> k]
FileFaults(n) == {NoFault, ReadFault} \cup { WriteFault(k) : k \in 0..n }

StationHandler_init_Overwrite(f) == JsonFile(<<>>)

StationHandler_init(f) == IF ~f.exists THEN JsonFile(<<>>) ELSE f

\* open(.., "r") and json.load raise without touching the file, and so does
\* historical_stations + [...] when the loaded value is not a list;
\* open(.., "w") truncates the file, and json.dump then writes the array
\* piecewise.
StationHandler_save(f, stations, fault) ==
    LET all_stations ==
            f.recs \o [i \in 1..Len(stations) |-> to_repr(stations[i])] IN
    IF fault.at = "read" \/ ~f.exists \/ ~f.complete \/ f.kind # "array"
    THEN [store |-> f, raised |-> TRUE]
    ELSE IF fault.at = "write"
    THEN [store |-> PartialFile(SubSeq(all_stations, 1, fault.written)),
          raised |-> TRUE]
    ELSE [store |-> JsonFile(all_stations), raised |-> FALSE]

\* json.load raises on incomplete text. The comprehension iterates what was
\* loaded: null is not iterable, the keys of an object are strings, which
\* from_repr cannot subscript with "id"; an object without keys yields [].
StationHandler_list(f) ==
    IF f.exists /\ f.complete /\ f.kind = "array"
    THEN [raised |-> FALSE,
          stations |-> [i \in 1..Len(f.recs) |-> from_repr(f.recs[i])]]
    ELSE IF f.exists /\ f.complete /\ f.kind = "object" /\ f.recs = <<>>
    THEN [raised |-> FALSE, stations |-> <<>>]
    ELSE [raised |-> TRUE, stations |-> <<>>]

\* ------------------------------------------------- StationHandlerSQLite
\* The database file: whether table "station" exists, and its committed rows.
NoTable == [hasTable |-> FALSE, rows |-> <<>>]

SQLiteRow(id, station) ==
    [id |-> id, name |-> station.name, address |-> station.address,
     station_id |-> station.station_id, bikes |-> station.bikes,
     slots |-> station.slots, total_slots |-> station.total_slots,
     latitude |-> station.latitude, longitude |-> station.longitude,
     timestamp |-> isoformat(station.measurement_dt), city |-> station.city]

\* CREATE TABLE IF NOT EXISTS
StationHandlerSQLite_init(d) ==
    IF d.hasTable THEN d ELSE [hasTable |-> TRUE, rows |-> <<>>]

\* Rows of the inserts 1..k, numbered by AUTOINCREMENT after the stored ones.
SQLiteInserted(d, stations, k) ==
    [i \in 1..k |-> SQLiteRow(Len(d.rows) + i, stations[i])]

StationHandlerSQLite_save_CommitEach(d, stations, failAt) ==
    IF failAt <= Len(stations)
    THEN [store |-> [d EXCEPT !.rows = @ \o SQLiteInserted(d, stations, failAt - 1)],
          raised |-> TRUE]
    ELSE [store |-> [d EXCEPT !.rows = @ \o SQLiteInserted(d, stations, Len(stations))],
          raised |-> FALSE]

\* Insert number failAt raises (failAt = Len(stations) + 1: none does). The
\* inserts run in the connection's implicit transaction; conn.commit() is only
\* reached when none raised, otherwise the connection is dropped uncommitted.
StationHandlerSQLite_save(d, stations, failAt) ==
    IF (~d.hasTable /\ Len(stations) > 0) \/ failAt <= Len(stations)
    THEN [store |-> d, raised |-> TRUE]
    ELSE [store |-> [d EXCEPT !.rows = @ \o SQLiteInserted(d, stations, Len(stations))],
          raised |-> FALSE]

\* The Station built from one selected row.
SQLiteStation(r) ==
    Station(r.station_id, r.name, r.address, r.bikes, r.slots, r.total_slots,
            r.latitude, r.longitude, fromisoformat(r.timestamp), r.city)

StationHandlerSQLite_list(d) ==
    IF d.hasTable
    THEN [raised |-> FALSE,
          stations |-> [i \in 1..Len(d.rows) |-> SQLiteStation(d.rows[i])]]
    ELSE [raised |-> TRUE, stations |-> <<>>]

\* ------------------------------------------------- StationHandlerMySQL
\* The number of %s markers in the INSERT statement of save.
NumPlaceholders == 9

\* The parameter tuple save passes to cursor.execute.
MySQLParams(station) ==
    << station.station_id, station.name, station.address, station.latitude,
       station.longitude, station.city, station.slots, station.bikes,
       station.total_slots, isoformat(station.measurement_dt) >>

\* Columns named by the INSERT, in order; the row a statement would store.
MySQLRow(params) ==
    [station_id |-> params[1], name |-> params[2], address |-> params[3],
     lat |-> params[4], lon |-> params[5], city |-> params[6],
     slots |-> params[7], bikes |-> params[8], total_slots |-> params[9],
     timestamp |-> params[10]]

\* cursor.execute raises ProgrammingError ("Not all parameters were used")
\* unless the statement has one marker per parameter.
MySQLExecuteRaises(params) == Len(params) # NumPlaceholders

\* autocommit = True: every insert that succeeds is stored at once. Insert
\* number failAt fails for an outside reason (connection lost).
StationHandlerMySQL_save(table, stations, failAt) ==
    LET n == Len(stations)
        bad == { i \in 1..n : MySQLExecuteRaises(MySQLParams(stations[i]))
                              \/ i = failAt }
        firstBad == IF bad = {} THEN n + 1
                    ELSE CHOOSE i \in bad : \A j \in bad : i <= j
    IN [store |-> table \o [i \in 1..(firstBad - 1) |->
                               MySQLRow(MySQLParams(stations[i]))],
        raised |-> firstBad <= n]

\* The Station built from one selected row.
MySQLStation(r) ==
    Station(r.station_id, r.name, r.address, r.bikes, r.slots, r.total_slots,
            r.lat, r.lon, fromisoformat(r.timestamp), r.city)

StationHandlerMySQL_list(table) ==
    [raised |-> FALSE,
     stations |-> [i \in 1..Len(table) |-> MySQLStation(table[i])]]

\* ------------------------------------------------------------------ state
VARIABLES
    args,                 \* parsed command line
    pc,                   \* position of __main__ ("api" in HandlerSpec)
    station_handler,      \* "none", "json", "sqlite" or "mysql"
    file,                 \* the JSON target file
    db,                   \* the SQLite database file
    mysql,                \* rows of table station on the MySQL server
    collection_datetime,  \* timestamp of the running cycle
    new_stations,         \* batch collected so far in the running cycle
    cityIdx,              \* position of the for loop in SOURCES_BY_CITY
    clock,                \* seconds shown by the wall clock
    exitCode,             \* -1 while running; 0 on break, 1 on exit(1) or error
    cycles,               \* history: cycles started
    fetches,              \* history: HTTP requests sent
    saves,                \* history: calls of save that returned
    sleeps,               \* history: calls of sleep
    snapshot,             \* history: list() as of the start of the cycle
    badSeen,              \* history: this cycle got a non-2xx or non-array reply
    fetchFailed,          \* history: this cycle had a request or a parse raise
    failed,               \* history: the step whose error ended the program
    replies,              \* history: the URLs requested in this cycle, with the arrays received
    completed,            \* history: the cycles whose save returned
    initially,            \* history: list() when the handler was constructed
    expected,             \* history: what the append law says list() returns
    lawful,               \* history: no I/O fault was injected so far
    lastOp                \* history: the last handler operation

storeVars == <<file, db, mysql>>
cycleVars == <<replies, completed, initially>>
mainVars == <<args, pc, collection_datetime, new_stations, cityIdx, clock,
              exitCode, cycles, fetches, saves, sleeps, snapshot, badSeen,
              fetchFailed, failed, cycleVars>>
histVars == <<expected, lawful, lastOp>>
vars == <<station_handler, storeVars, mainVars, histVars>>

\* Outcome of a list() that raises.
NotListed == [raised |-> TRUE, stations |-> <<>>]

\* list() of the handler of the given kind on the given stores.
ListOf(kind, f, d, t) ==
    CASE kind = "json" -> StationHandler_list(f)
      [] kind = "sqlite" -> StationHandlerSQLite_list(d)
      [] kind = "mysql" -> StationHandlerMySQL_list(t)
      [] OTHER -> NotListed

ListNow == ListOf(station_handler, file, db, mysql)

\* A record stored by an earlier run.
Stored0 == from_trentino_data_hub_repr(RawB, Datetime(1, 5), "rovereto")

\* Stores the program may find when it starts: nothing there yet, stores
\* holding no record, stores holding one record, and a target file that is
\* not a JSON array (cut short, an object with or without keys, null).
InitialStores ==
    { <<NoFile, NoTable, <<>> >>,
      <<PartialFile(<<>>), NoTable, <<>> >>,
      <<ObjectFile(<<>>), NoTable, <<>> >>,
      <<ObjectFile(<<"stations">>), NoTable, <<>> >>,
      <<NullFile, NoTable, <<>> >>,
      <<JsonFile(<<>>), [hasTable |-> TRUE, rows |-> <<>>], <<>> >>,
      <<JsonFile(<<to_repr(Stored0)>>),
        [hasTable |-> TRUE, rows |-> <<SQLiteRow(1, Stored0)>>],
        <<MySQLRow(MySQLParams(Stored0))>> >> }

NotConstructed == [listed |-> NotListed, wellFormed |-> FALSE]

NoOp == [op |-> "none", kind |-> "none", before |-> NotListed, batch |-> <<>>,
         fault |-> FALSE, issued |-> 0, raised |-> FALSE]

NoArgs == [sleep_interval |-> 0, json_file |-> FALSE, sqlite_db |-> FALSE,
           mysql_host |-> FALSE, mysql_user |-> FALSE,
           mysql_password |-> FALSE, mysql_database |-> FALSE]

\* ------------------------------------------------------------ HandlerSpec
HInit ==
    /\ \E st \in InitialStores : file = st[1] /\ db = st[2] /\ mysql = st[3]
    /\ station_handler = "none"
    /\ args = NoArgs /\ pc = "api"
    /\ collection_datetime = Datetime(0, 0) /\ new_stations = <<>>
    /\ cityIdx = 0 /\ clock = 1 /\ exitCode = -1
    /\ cycles = 0 /\ fetches = 0 /\ saves = 0 /\ sleeps = 0
    /\ snapshot = NotListed /\ badSeen = FALSE /\ fetchFailed = FALSE
    /\ failed = "none"
    /\ replies = <<>> /\ completed = <<>> /\ initially = NotConstructed
    /\ expected = <<>> /\ lawful = FALSE /\ lastOp = NoOp

\* The store of the handler is one the handler itself could have written.
WellFormedStore(kind, f) ==
    kind = "json" => (f.exists /\ f.complete /\ f.kind = "array")

\* History kept by a constructor call: the first one fixes what the store
\* lists initially.
Constructed(kind, before) ==
    /\ lastOp' = [NoOp EXCEPT !.op = "init", !.kind = kind, !.before = before]
    /\ IF station_handler = "none"
       THEN /\ expected' = ListNow'.stations
            /\ lawful' = (~ListNow'.raised /\ WellFormedStore(kind, file'))
       ELSE UNCHANGED <<expected, lawful>>

\* History kept by a save call. Once a fault was injected the append law says
\* nothing more, and the expectation is dropped.
Saved(kind, before, batch, fault, issued, raised) ==
    /\ lastOp' = [op |-> "save", kind |-> kind, before |-> before,
                  batch |-> batch, fault |-> fault, issued |-> issued,
                  raised |-> raised]
    /\ lawful' = (lawful /\ ~fault)
    /\ expected' = IF lawful' THEN expected \o batch ELSE <<>>

\* StationHandler(target_file)
HConstructFile ==
    /\ pc = "api" /\ station_handler \in {"none", "json"}
    /\ station_handler' = "json"
    /\ file' = StationHandler_init(file)
    /\ UNCHANGED <<db, mysql, mainVars>>
    /\ Constructed("json", StationHandler_list(file))

\* StationHandlerSQLite(target_file)
HConstructSQLite ==
    /\ pc = "api" /\ station_handler \in {"none", "sqlite"}
    /\ station_handler' = "sqlite"
    /\ db' = StationHandlerSQLite_init(db)
    /\ UNCHANGED <<file, mysql, mainVars>>
    /\ Constructed("sqlite", StationHandlerSQLite_list(db))

\* StationHandlerMySQL(host, port, database, user, password): connects to a
\* server that has the table.
HConstructMySQL ==
    /\ pc = "api" /\ station_handler \in {"none", "mysql"}
    /\ station_handler' = "mysql"
    /\ UNCHANGED <<file, db, mysql, mainVars>>
    /\ Constructed("mysql", StationHandlerMySQL_list(mysql))

Batches == SeqsUpTo(StationPool, MaxBatch)

HSaveFile ==
    /\ pc = "api" /\ station_handler = "json"
    /\ \E batch \in Batches :
         /\ Len(file.recs) + Len(batch) <= MaxStored
         /\ Len(expected) + Len(batch) <= MaxStored
         /\ \E fault \in FileFaults(Len(file.recs) + Len(batch)) :
              LET r == StationHandler_save(file, batch, fault) IN
              /\ file' = r.store
              /\ Saved("json", StationHandler_list(file), batch,
                       fault.at # "none", 0, r.raised)
    /\ UNCHANGED <<station_handler, db, mysql, mainVars>>

HSaveSQLite ==
    /\ pc = "api" /\ station_handler = "sqlite"
    /\ \E batch \in Batches :
         /\ Len(db.rows) + Len(batch) <= MaxStored
         /\ Len(expected) + Len(batch) <= MaxStored
         /\ \E failAt \in 1..(Len(batch) + 1) :
              LET r == StationHandlerSQLite_save(db, batch, failAt) IN
              /\ db' = r.store
              /\ Saved("sqlite", StationHandlerSQLite_list(db), batch,
                       failAt <= Len(batch), failAt - 1, r.raised)
    /\ UNCHANGED <<station_handler, file, mysql, mainVars>>

HSaveMySQL ==
    /\ pc = "api" /\ station_handler = "mysql"
    /\ \E batch \in Batches :
         /\ Len(mysql) + Len(batch) <= MaxStored
         /\ Len(expected) + Len(batch) <= MaxStored
         /\ \E failAt \in 1..(Len(batch) + 1) :
              LET r == StationHandlerMySQL_save(mysql, batch, failAt) IN
              /\ mysql' = r.store
              /\ Saved("mysql", StationHandlerMySQL_list(mysql), batch,
                       failAt <= Len(batch), Len(r.store) - Len(mysql),
                       r.raised)
    /\ UNCHANGED <<station_handler, file, db, mainVars>>

HNext ==
    \/ HConstructFile
    \/ HConstructSQLite
    \/ HConstructMySQL
    \/ HSaveFile
    \/ HSaveSQLite
    \/ HSaveMySQL

HandlerSpec == HInit /\ [][HNext]_vars

\* ------------------------------------------------------------------- Spec
\* Command lines: the interval, and for every storage flag whether it was
\* given a (non-empty) value.
MySQLFlagSets ==
    { <<FALSE, FALSE, FALSE, FALSE>>, <<TRUE, FALSE, FALSE, FALSE>>,
      <<TRUE, TRUE, TRUE, FALSE>>, <<TRUE, TRUE, TRUE, TRUE>> }

ArgSets ==
    { [sleep_interval |-> i, json_file |-> j, sqlite_db |-> q,
       mysql_host |-> m[1], mysql_user |-> m[2], mysql_password |-> m[3],
       mysql_database |-> m[4]] :
        i \in {-1, 0, 1}, j \in BOOLEAN, q \in BOOLEAN, m \in MySQLFlagSets }

Init ==
    /\ args \in ArgSets
    /\ \E st \in InitialStores : file = st[1] /\ db = st[2] /\ mysql = st[3]
    /\ station_handler = "none" /\ pc = "select"
    /\ collection_datetime = Datetime(0, 0) /\ new_stations = <<>>
    /\ cityIdx = 0 /\ clock = 1 /\ exitCode = -1
    /\ cycles = 0 /\ fetches = 0 /\ saves = 0 /\ sleeps = 0
    /\ snapshot = NotListed /\ badSeen = FALSE /\ fetchFailed = FALSE
    /\ failed = "none"
    /\ replies = <<>> /\ completed = <<>> /\ initially = NotConstructed
    /\ expected = <<>> /\ lawful = FALSE /\ lastOp = NoOp

Crash_LogAndContinue(step) ==
    pc' = "interval" /\ failed' = step /\ exitCode' = exitCode

\* The program ends with an uncaught exception raised by `step`.
Crash(step) == pc' = "crashed" /\ failed' = step /\ exitCode' = 1

MySQLSelected_HostOnly == args.mysql_host

MySQLSelected ==
    /\ args.mysql_host /\ args.mysql_user /\ args.mysql_user
    /\ args.mysql_password /\ args.mysql_database

\* The if/elif chain choosing the handler. The MySQL branch reads
\* args.mysql_username, an attribute the parser never defines.
SelectBackend ==
    /\ pc = "select"
    /\ UNCHANGED <<args, collection_datetime, new_stations, cityIdx, clock,
                   cycles, fetches, saves, sleeps, snapshot, badSeen, fetchFailed,
                   mysql, replies, completed>>
    /\ IF args.json_file
       THEN /\ station_handler' = "json"
            /\ file' = StationHandler_init(file)
            /\ Constructed("json", StationHandler_list(file))
            /\ pc' = "loop"
            /\ UNCHANGED <<db, exitCode, failed>>
       ELSE IF args.sqlite_db
       THEN /\ station_handler' = "sqlite"
            /\ db' = StationHandlerSQLite_init(db)
            /\ Constructed("sqlite", StationHandlerSQLite_list(db))
            /\ pc' = "loop"
            /\ UNCHANGED <<file, exitCode, failed>>
       ELSE IF MySQLSelected
       THEN IF "mysql_username" \in DOMAIN args
            THEN /\ station_handler' = "mysql"
                 /\ Constructed("mysql", StationHandlerMySQL_list(mysql))
                 /\ pc' = "loop"
                 /\ UNCHANGED <<file, db, exitCode, failed>>
            ELSE /\ Crash("select")
                 /\ UNCHANGED <<station_handler, file, db, histVars>>
       ELSE /\ pc' = "exit" /\ exitCode' = 1
            /\ UNCHANGED <<station_handler, file, db, failed, histVars>>
    /\ initially' = IF station_handler' = "none" THEN initially
                    ELSE [listed |-> ListNow',
                          wellFormed |-> WellFormedStore(station_handler', file')]

\* Top of the while loop: read the clock, start an empty batch.
CycleStart ==
    /\ pc = "loop" /\ cycles < MaxCycles
    /\ \E us \in {0, 5} : collection_datetime' = Datetime(clock, us)
    /\ new_stations' = <<>>
    /\ cityIdx' = 1
    /\ cycles' = cycles + 1
    /\ snapshot' = ListNow
    /\ badSeen' = FALSE
    /\ fetchFailed' = FALSE
    /\ replies' = <<>>
    /\ pc' = "collect"
    /\ UNCHANGED <<completed, initially>>
    /\ UNCHANGED <<args, clock, exitCode, fetches, saves, sleeps, failed,
                   station_handler, storeVars, histVars>>

\* What a GET may come back with: no response at all (requests raises), or a
\* status and a body. A body is a JSON array of elements, a JSON object with
\* the given keys, the JSON value null, or text that is not JSON.
Body(kind, items) == [kind |-> kind, items |-> items]
Bodies ==
    { Body("array", <<>>), Body("array", <<RawA, RawB>>),
      Body("array", <<RawA, RawNoPosition>>),
      Body("object", <<>>), Body("object", <<"error">>),
      Body("null", <<>>), Body("text", <<>>) }
Responses ==
    { [delivered |-> FALSE, status |-> 0, body |-> Body("text", <<>>)] }
    \cup { [delivered |-> TRUE, status |-> st, body |-> b] :
             st \in {200, 500}, b \in Bodies }

Is2xx(status) == 200 <= status /\ status <= 299

\* Number of loop iterations over bike_stations that complete: iterating an
\* object yields its keys, and subscripting a key (a string) with "id" raises
\* TypeError; an element lacking a key raises KeyError.
AdaptedCount(body) ==
    IF body.kind = "array"
    THEN LET badAt == { i \in 1..Len(body.items) : ~Adaptable(body.items[i]) }
         IN IF badAt = {} THEN Len(body.items)
            ELSE (CHOOSE i \in badAt : \A j \in badAt : i <= j) - 1
    ELSE 0

Collect_Swallow(resp, collection_dt, city) ==
    [raised |-> FALSE,
     stations |-> IF resp.delivered /\ resp.body.kind = "array"
                  THEN [i \in 1..AdaptedCount(resp.body) |->
                          from_trentino_data_hub_repr(resp.body.items[i],
                                                      collection_dt, city)]
                  ELSE <<>>]

Collect_StampPerCity(resp, collection_dt, city) ==
    LET body == resp.body
        done == AdaptedCount(body)
        now == IF city = SOURCES_BY_CITY[1].city THEN collection_dt
               ELSE Datetime(collection_dt.s, collection_dt.us + 1)
    IN [raised |-> \/ ~resp.delivered
                   \/ body.kind \in {"text", "null"}
                   \/ done < Len(body.items),
        stations |-> IF resp.delivered /\ body.kind = "array"
                     THEN [i \in 1..done |->
                             from_trentino_data_hub_repr(body.items[i], now,
                                                         city)]
                     ELSE <<>>]

\* requests.request, json.loads and the loop over the parsed body, for one
\* city. The status of the response is never looked at.
Collect(resp, collection_dt, city) ==
    LET body == resp.body
        done == AdaptedCount(body)
    IN [raised |-> \/ ~resp.delivered
                   \/ body.kind \in {"text", "null"}
                   \/ done < Len(body.items),
        stations |-> IF resp.delivered /\ body.kind = "array"
                     THEN [i \in 1..done |->
                             from_trentino_data_hub_repr(body.items[i],
                                                         collection_dt, city)]
                     ELSE <<>>]

\* The elements of the JSON array a response carries, none when it carries
\* no array.
ArrayItems(resp) ==
    IF resp.delivered /\ resp.body.kind = "array" THEN resp.body.items
    ELSE <<>>

\* The request raised (no response), or json.loads did (the body is not JSON).
FetchRaises(resp) == ~resp.delivered \/ resp.body.kind = "text"

CollectCity_SaveEarly ==
    /\ pc = "collect"
    /\ \E resp \in Responses :
         LET r == Collect(resp, collection_datetime,
                          SOURCES_BY_CITY[cityIdx].city) IN
         /\ fetches' = fetches + 1
         /\ new_stations' = new_stations \o r.stations
         /\ badSeen' = (badSeen \/ (resp.delivered /\
                           (~Is2xx(resp.status) \/ resp.body.kind # "array")))
         /\ fetchFailed' = (fetchFailed \/ FetchRaises(resp))
         /\ replies' = Append(replies, [url |-> SOURCES_BY_CITY[cityIdx].url,
                                        items |-> ArrayItems(resp)])
         /\ IF r.raised
            THEN Crash("collect") /\ UNCHANGED cityIdx
            ELSE /\ cityIdx' = cityIdx + 1
                 /\ pc' = "save"
                 /\ UNCHANGED <<exitCode, failed>>
    /\ UNCHANGED <<args, collection_datetime, clock, cycles, saves, sleeps,
                   snapshot, station_handler, storeVars, histVars, completed,
                   initially>>

\* One iteration of the for loop over SOURCES_BY_CITY.
CollectCity ==
    /\ pc = "collect"
    /\ \E resp \in Responses :
         LET r == Collect(resp, collection_datetime,
                          SOURCES_BY_CITY[cityIdx].city) IN
         /\ fetches' = fetches + 1
         /\ new_stations' = new_stations \o r.stations
         /\ badSeen' = (badSeen \/ (resp.delivered /\
                           (~Is2xx(resp.status) \/ resp.body.kind # "array")))
         /\ fetchFailed' = (fetchFailed \/ FetchRaises(resp))
         /\ replies' = Append(replies, [url |-> SOURCES_BY_CITY[cityIdx].url,
                                        items |-> ArrayItems(resp)])
         /\ IF r.raised
            THEN Crash("collect") /\ UNCHANGED cityIdx
            ELSE /\ cityIdx' = cityIdx + 1
                 /\ pc' = IF cityIdx = Len(SOURCES_BY_CITY)
                          THEN "save" ELSE "collect"
                 /\ UNCHANGED <<exitCode, failed>>
    /\ UNCHANGED <<args, collection_datetime, clock, cycles, saves, sleeps,
                   snapshot, station_handler, storeVars, histVars, completed,
                   initially>>

\* station_handler.save(new_stations)
SaveStep ==
    /\ pc = "save"
    /\ \E fault \in FileFaults(Len(file.recs) + Len(new_stations)),
          failAt \in 1..(Len(new_stations) + 1) :
         LET r == CASE station_handler = "json" ->
                         StationHandler_save(file, new_stations, fault)
                    [] station_handler = "sqlite" ->
                         StationHandlerSQLite_save(db, new_stations, failAt)
                    [] station_handler = "mysql" ->
                         StationHandlerMySQL_save(mysql, new_stations, failAt)
             injected == IF station_handler = "json" THEN fault.at # "none"
                         ELSE failAt <= Len(new_stations)
         IN
         /\ (station_handler = "json") => failAt = 1
         /\ (station_handler # "json") => fault = NoFault
         /\ file' = IF station_handler = "json" THEN r.store ELSE file
         /\ db' = IF station_handler = "sqlite" THEN r.store ELSE db
         /\ mysql' = IF station_handler = "mysql" THEN r.store ELSE mysql
         /\ Saved(station_handler, ListNow, new_stations, injected,
                  IF station_handler = "json" THEN 0 ELSE failAt - 1, r.raised)
         /\ IF r.raised
            THEN Crash("save") /\ UNCHANGED <<saves, completed>>
            ELSE /\ saves' = saves + 1 /\ pc' = "interval"
                 /\ completed' = Append(completed, [dt |-> collection_datetime,
                                          replies |-> replies,
                                          batch |-> new_stations])
                 /\ UNCHANGED <<exitCode, failed>>
    /\ UNCHANGED <<args, collection_datetime, new_stations, cityIdx, clock,
                   cycles, fetches, sleeps, snapshot, badSeen, fetchFailed,
                   station_handler, replies, initially>>

SleepOrBreak_NonNegative ==
    /\ pc = "interval"
    /\ IF args.sleep_interval >= 0
       THEN /\ sleeps' = sleeps + 1
            /\ clock' = clock + args.sleep_interval
            /\ pc' = "loop"
            /\ UNCHANGED exitCode
       ELSE /\ pc' = "done" /\ exitCode' = 0
            /\ UNCHANGED <<sleeps, clock>>
    /\ UNCHANGED <<args, collection_datetime, new_stations, cityIdx, cycles,
                   fetches, saves, snapshot, badSeen, fetchFailed, failed,
                   station_handler, storeVars, histVars, cycleVars>>

\* Bottom of the loop: sleep and go round again, or break.
SleepOrBreak ==
    /\ pc = "interval"
    /\ IF args.sleep_interval > 0
       THEN /\ sleeps' = sleeps + 1
            /\ clock' = clock + args.sleep_interval
            /\ pc' = "loop"
            /\ UNCHANGED exitCode
       ELSE /\ pc' = "done" /\ exitCode' = 0
            /\ UNCHANGED <<sleeps, clock>>
    /\ UNCHANGED <<args, collection_datetime, new_stations, cityIdx, cycles,
                   fetches, saves, snapshot, badSeen, fetchFailed, failed,
                   station_handler, storeVars, histVars, cycleVars>>

Next ==
    \/ SelectBackend
    \/ CycleStart
    \/ CollectCity
    \/ SaveStep
    \/ SleepOrBreak

Spec == Init /\ [][Next]_vars

\* ---------------------------------------------------------------- claims
IsPrefix(s, t) == Len(s) <= Len(t) /\ SubSeq(t, 1, Len(s)) = s

\* C1 (HandlerSpec): append law. On every backend, while no I/O fault has been
\* injected, list() returns what the store listed initially followed by the
\* batches of all save calls, in call order.
AppendLaw ==
    (station_handler # "none" /\ lawful)
        => (~ListNow.raised /\ ListNow.stations = expected)

\* The append law restricted to the file and the SQLite backend.
AppendLawFileSQLite ==
    (station_handler \in {"json", "sqlite"} /\ lawful)
        => (~ListNow.raised /\ ListNow.stations = expected)

AppendLawFileSQLiteWitness ==
    /\ station_handler \in {"json", "sqlite"} /\ lawful
    /\ lastOp.op = "save" /\ Len(lastOp.batch) = 2
    /\ Len(lastOp.before.stations) >= 1
    /\ lastOp.batch[1] = lastOp.batch[2]

\* C2 (Spec): all-or-nothing cycle. Once a request or a parse has raised in a
\* cycle, the store lists exactly what it listed when the cycle started.
AllOrNothingCycle == fetchFailed => ListNow = snapshot

\* The fetch of the last city failed after the first had delivered records.
AllOrNothingCycleWitness ==
    /\ fetchFailed /\ failed = "collect" /\ cityIdx = Len(SOURCES_BY_CITY)
    /\ Len(new_stations) > 0 /\ ~snapshot.raised

\* C3 (HandlerSpec): file write safety. After a save of the file backend that
\* raised, the file is still a complete JSON array holding every record it
\* held before.
FileWriteSafety ==
    (lastOp.op = "save" /\ lastOp.kind = "json" /\ lastOp.raised
        /\ ~lastOp.before.raised)
        => /\ file.exists /\ file.complete
           /\ IsPrefix(lastOp.before.stations, StationHandler_list(file).stations)

\* C4 (HandlerSpec): atomic append on the relational backends. After a save
\* that raised, list() returns what it returned before the save.
AtomicAppend ==
    (lastOp.op = "save" /\ lastOp.kind \in {"sqlite", "mysql"} /\ lastOp.raised)
        => ListNow = lastOp.before

\* A SQLite save failed after at least one insert had been issued.
AtomicAppendWitness ==
    /\ lastOp.op = "save" /\ lastOp.kind = "sqlite" /\ lastOp.raised
    /\ lastOp.issued >= 1 /\ lastOp.issued < Len(lastOp.batch)
    /\ Len(lastOp.before.stations) >= 1

\* C5 (HandlerSpec): the constructors of the file and the SQLite backend are
\* idempotent and non-destructive. On a fresh location they leave a store
\* listing nothing; on any other they leave list() as it was.
InitIdempotent ==
    [][ /\ HConstructFile =>
            StationHandler_list(file') =
                IF file.exists THEN StationHandler_list(file)
                ELSE [raised |-> FALSE, stations |-> <<>>]
        /\ HConstructSQLite =>
            StationHandlerSQLite_list(db') =
                IF db.hasTable THEN StationHandlerSQLite_list(db)
                ELSE [raised |-> FALSE, stations |-> <<>>] ]_vars

\* A backend was constructed again on a location that earlier constructions
\* and saves had filled.
InitIdempotentWitness ==
    /\ lastOp.op = "init" /\ lastOp.kind \in {"json", "sqlite"}
    /\ ~lastOp.before.raised /\ Len(lastOp.before.stations) >= 2
    /\ lawful /\ expected = lastOp.before.stations

\* C6 (Spec): a response with a non-2xx status, or whose body is not a JSON
\* array, is a failed fetch; the cycle that received one persists nothing.
BadResponseNotPersisted == badSeen => ListNow = snapshot

\* C7 (Spec): single-shot termination. Done is reached only with an interval
\* <= 0, after exactly one cycle and one save; at the bottom of the loop an
\* interval <= 0 breaks and an interval > 0 sleeps and returns to the top,
\* so that every completed cycle has been followed by a sleep.
SingleShot ==
    /\ [](pc = "done" =>
            args.sleep_interval <= 0 /\ cycles = 1 /\ saves = 1 /\ sleeps = 0)
    /\ [](args.sleep_interval > 0 => pc # "done")
    /\ [](pc \in {"loop", "collect", "save"} /\ args.sleep_interval > 0 =>
            sleeps = saves)
    /\ [][pc = "interval" =>
            IF args.sleep_interval > 0
            THEN pc' = "loop" /\ sleeps' = sleeps + 1
            ELSE pc' = "done"]_vars
    /\ [][pc = "loop" => pc' = "collect" /\ cycles' = cycles + 1]_vars

\* A run with a negative interval has ended after its single cycle.
SingleShotWitness ==
    pc = "done" /\ args.sleep_interval < 0 /\ saves = 1 /\ fetches = 2

\* A run with a positive interval has slept and started another cycle.
RepeatingWitness ==
    pc = "collect" /\ args.sleep_interval > 0 /\ cycles = 2 /\ sleeps = 1

\* The flags select none of the three backends.
NoStorageSelected ==
    /\ ~args.json_file /\ ~args.sqlite_db
    /\ ~(args.mysql_host /\ args.mysql_user /\ args.mysql_password
           /\ args.mysql_database)

\* C8 (Spec): missing storage selection is fatal and precedes all network
\* activity: the program exits with code 1, having sent no request, started
\* no cycle and saved nothing.
MissingStorageFatal ==
    NoStorageSelected =>
        /\ pc \in {"select", "exit"}
        /\ pc = "exit" => exitCode = 1
        /\ fetches = 0 /\ saves = 0 /\ cycles = 0
        /\ station_handler = "none" /\ lastOp = NoOp

\* The program has exited on incomplete MySQL credentials.
MissingStorageFatalWitness ==
    /\ pc = "exit" /\ exitCode = 1
    /\ args.mysql_host /\ args.mysql_user /\ ~args.mysql_database

\* The flags name more than one backend.
ConflictingSelection ==
    LET my == args.mysql_host /\ args.mysql_user /\ args.mysql_password
                /\ args.mysql_database
    IN \/ args.json_file /\ args.sqlite_db
       \/ args.json_file /\ my
       \/ args.sqlite_db /\ my

\* C9 (Spec): a conflicting selection is rejected: no handler is constructed,
\* no cycle starts and nothing is written.
ConflictRejected ==
    ConflictingSelection =>
        /\ pc \in {"select", "exit"}
        /\ station_handler = "none" /\ cycles = 0 /\ saves = 0

\* C10 (HandlerSpec): a save on the MySQL backend with no outside fault issues
\* one successful insert per record, and list() then returns the batch after
\* the records stored before.
MySQLSavePersists ==
    (lastOp.op = "save" /\ lastOp.kind = "mysql" /\ ~lastOp.fault)
        => /\ ~lastOp.raised
           /\ lastOp.issued = Len(lastOp.batch)
           /\ ListNow.stations = lastOp.before.stations \o lastOp.batch

\* (Spec) Complete MySQL flags, with no other storage flag, give a handler.
MySQLSelectionWorks ==
    (~args.json_file /\ ~args.sqlite_db /\ MySQLSelected /\ pc # "select")
        => station_handler = "mysql"

\* The target file of the file backend exists and is not a well-formed JSON
\* array.
CorruptFile ==
    station_handler = "json" /\ file.exists
        /\ ~(file.complete /\ file.kind = "array")

\* C11 (HandlerSpec): a corrupt file store is reported and left untouched:
\* list() raises on it, and save raises on it and leaves the file as it was.
CorruptStoreReported ==
    /\ [](CorruptFile => StationHandler_list(file).raised)
    /\ [][(HSaveFile /\ CorruptFile) => (lastOp'.raised /\ file' = file)]_vars

\* The part of C11 about save alone.
CorruptSaveUntouched ==
    [][(HSaveFile /\ CorruptFile) => (lastOp'.raised /\ file' = file)]_vars

\* C12 (Spec): round trip. Every record adapted in a cycle is equal, in all
\* ten fields, to from_repr of its to_repr; and once such a batch has been
\* saved to a file store that listed nothing, list() returns the batch.
RoundTrip ==
    /\ \A i \in 1..Len(new_stations) :
         from_repr(to_repr(new_stations[i])) = new_stations[i]
    /\ (station_handler = "json" /\ pc = "interval"
          /\ snapshot = [raised |-> FALSE, stations |-> <<>>])
        => ListNow = [raised |-> FALSE, stations |-> new_stations]

\* A batch of both cities, stamped with a time that has microseconds, was
\* saved to an empty file store.
RoundTripWitness ==
    /\ station_handler = "json" /\ pc = "interval"
    /\ snapshot = [raised |-> FALSE, stations |-> <<>>]
    /\ Len(new_stations) = 4 /\ collection_datetime.us # 0

\* As before, with a time that has no microseconds.
RoundTripWitnessWholeSecond ==
    /\ station_handler = "json" /\ pc = "interval"
    /\ snapshot = [raised |-> FALSE, stations |-> <<>>]
    /\ Len(new_stations) = 4 /\ collection_datetime.us = 0

\* The records a cycle stamped dt adapts from the array received for city
\* number k.
CityRecords(k, items, dt) ==
    [i \in 1..Len(items) |->
        from_trentino_data_hub_repr(items[i], dt, SOURCES_BY_CITY[k].city)]

RECURSIVE Concat(_)
Concat(ss) == IF ss = <<>> THEN <<>> ELSE Head(ss) \o Concat(Tail(ss))

\* The batch of a completed cycle holds, for every configured city in turn,
\* the records of the array received for it, all stamped with the cycle's
\* timestamp.
CompleteBatch(c) ==
    /\ Len(c.replies) = Len(SOURCES_BY_CITY)
    /\ c.batch = Concat([k \in 1..Len(c.replies) |->
                           CityRecords(k, c.replies[k].items, c.dt)])

\* What the store lists if it is the initial listing followed by the batches
\* of the completed cycles.
ListedBatches ==
    initially.listed.stations
        \o Concat([i \in 1..Len(completed) |-> completed[i].batch])

\* C13 (Spec): store snapshot invariant. After any sequence of cycles,
\* successful or failed, on a store that was well formed at the start, the
\* store lists the initial records followed by complete batches only.
SnapshotInvariant ==
    (station_handler # "none" /\ initially.wellFormed)
        => /\ ~ListNow.raised
           /\ ListNow.stations = ListedBatches
           /\ \A i \in 1..Len(completed) : CompleteBatch(completed[i])

\* C13 wherever the file has not been cut short by a failed write.
SnapshotInvariantReadable ==
    (station_handler # "none" /\ initially.wellFormed
        /\ WellFormedStore(station_handler, file))
        => /\ ~ListNow.raised
           /\ ListNow.stations = ListedBatches
           /\ \A i \in 1..Len(completed) : CompleteBatch(completed[i])

SnapshotInvariantReadableWitness ==
    /\ Len(completed) = 2 /\ pc = "loop" /\ initially.wellFormed
    /\ Len(ListNow.stations) >= 5

\* C14 (Spec): one timestamp per cycle. Every record of the running batch and
\* of every saved batch carries its cycle's timestamp; the timestamp changes
\* only at the top of the loop, before any request of the cycle, and never
\* between cities.
OneTimestamp ==
    /\ [](\A i \in 1..Len(new_stations) :
            new_stations[i].measurement_dt = collection_datetime)
    /\ [](\A c \in 1..Len(completed) : \A i \in 1..Len(completed[c].batch) :
            completed[c].batch[i].measurement_dt = completed[c].dt)
    /\ [][collection_datetime' # collection_datetime =>
            (pc = "loop" /\ fetches' = fetches /\ replies' = <<>>)]_vars
    /\ [][(pc = "collect" \/ pc = "save") =>
            (collection_datetime' = collection_datetime)]_vars

\* The second cycle has saved records of both cities under a timestamp
\* other than the first cycle's.
OneTimestampWitness ==
    /\ pc = "interval" /\ cycles = 2 /\ Len(completed) = 2
    /\ completed[1].dt # completed[2].dt
    /\ Len(new_stations) = 4
    /\ new_stations[1].city = "trento" /\ new_stations[4].city = "rovereto"

\* C15 (Spec): one save per cycle, after all fetches. save is reached only
\* with every configured city fetched, is called at most once per cycle and
\* exactly once in a cycle that completes, with the whole batch; no store
\* changes while cities are being collected; and a cycle that collected
\* nothing still calls save, which leaves list() unchanged.
OneSavePerCycle ==
    /\ [](pc = "save" =>
            /\ Len(replies) = Len(SOURCES_BY_CITY)
            /\ fetches = cycles * Len(SOURCES_BY_CITY)
            /\ saves = cycles - 1)
    /\ [](pc = "interval" =>
            /\ saves = cycles
            /\ lastOp.op = "save" /\ lastOp.batch = new_stations
            /\ new_stations = <<>> => ListNow = snapshot)
    /\ [](saves + (IF failed = "save" THEN 1 ELSE 0) <= cycles)
    /\ [][pc = "collect" => storeVars' = storeVars]_vars
    /\ [][storeVars' # storeVars => (pc = "save" \/ pc = "select")]_vars

\* Both cities answered 200 with an empty array, and the empty batch was
\* saved to a store that lists a record.
OneSavePerCycleWitness ==
    /\ pc = "interval" /\ new_stations = <<>> /\ ~badSeen
    /\ Len(replies) = Len(SOURCES_BY_CITY)
    /\ lastOp.op = "save" /\ lastOp.batch = <<>> /\ ~lastOp.raised
    /\ Len(snapshot.stations) >= 1 /\ saves = cycles

\* The order the claim names: trento, then rovereto.
ClaimedOrder ==
    << [city |-> "trento", url |-> "bikesharing/trento"],
       [city |-> "rovereto", url |-> "bikesharing/rovereto"] >>

CityRank(city) == CHOOSE k \in 1..Len(ClaimedOrder) : ClaimedOrder[k].city = city

\* The records of the running batch that belong to the given city.
RecordsOfCity(city) == SelectSeq(new_stations, LAMBDA st : st.city = city)

\* C16 (Spec): city order in a batch. The k-th request of every cycle goes to
\* the k-th city of the order trento, rovereto; in the batch no record of a
\* later city precedes one of an earlier city, and the records of each city
\* are those of the array received for it, in the array's order.
CityOrder ==
    /\ \A k \in 1..Len(replies) :
         k <= Len(ClaimedOrder) /\ replies[k].url = ClaimedOrder[k].url
    /\ \A i, j \in 1..Len(new_stations) :
         i < j => CityRank(new_stations[i].city) <= CityRank(new_stations[j].city)
    /\ pc \in {"collect", "save", "interval"} =>
         \A k \in 1..Len(ClaimedOrder) :
            RecordsOfCity(ClaimedOrder[k].city) =
                IF k <= Len(replies)
                THEN [i \in 1..Len(replies[k].items) |->
                        from_trentino_data_hub_repr(replies[k].items[i],
                            collection_datetime, ClaimedOrder[k].city)]
                ELSE <<>>

\* A cycle received two stations for each city and has saved the four records.
CityOrderWitness ==
    /\ pc = "interval" /\ Len(new_stations) = 4
    /\ new_stations[1].city = "trento" /\ new_stations[1].station_id = "42"
    /\ new_stations[2].city = "trento" /\ new_stations[2].station_id = "7"
    /\ new_stations[3].city = "rovereto" /\ new_stations[3].station_id = "42"
    /\ new_stations[4].city = "rovereto" /\ new_stations[4].station_id = "7"

\* C17 (Spec): in repeating mode an error in a step of a cycle ends the
\* program. Whenever a request or a parse has raised, an element could not be
\* adapted, or save has raised, the program has crashed; and from a crash no
\* step follows: no later cycle, no sleep, no save.
ErrorEndsLoop ==
    /\ [](args.sleep_interval > 0 =>
            /\ fetchFailed => pc = "crashed"
            /\ (\E k \in 1..Len(replies) : \E i \in 1..Len(replies[k].items) :
                  ~Adaptable(replies[k].items[i])) => pc = "crashed"
            /\ (lastOp.op = "save" /\ lastOp.raised) => pc = "crashed"
            /\ pc = "crashed" <=> failed # "none")
    /\ [][~(pc = "crashed" /\ args.sleep_interval > 0)]_vars

\* In repeating mode the second cycle failed at a fetch after the first had
\* been saved and slept on.
ErrorEndsLoopWitness ==
    /\ pc = "crashed" /\ args.sleep_interval > 0 /\ failed = "collect"
    /\ cycles = 2 /\ sleeps = 1 /\ saves = 1 /\ fetchFailed

\* As before, the failing step being save.
ErrorEndsLoopWitnessSave ==
    /\ pc = "crashed" /\ args.sleep_interval > 0 /\ failed = "save"
    /\ cycles = 2 /\ sleeps = 1 /\ saves = 1

====
